---------------------------- MODULE Spec2Model ----------------------------
(***************************************************************************)
(* Bottle rocket flight model (src/BottleRocketSim.jsx): the RK4           *)
(* integrator, the rocket ODEs, runSimulation and findOptimal.             *)
(*                                                                         *)
(* Number representation.                                                  *)
(*  - Simulated time t and the fill ratio r are IEEE-754 doubles in the    *)
(*    source and their rounding decides discrete behaviour (loop counts,   *)
(*    grid end point, sampling).  They are modelled exactly: a double is   *)
(*    the natural number N with value N * 2^-61, kept as five limbs of 15  *)
(*    bits (least significant first), and every operation rounds its exact *)
(*    result to 53 significant bits, ties to even.                         *)
(*  - The state vector y = [v, h, m, V_water] and the derivatives are      *)
(*    fixed-point integers:                                                *)
(*        v        1e-6 m/s        dv/dt        1e-3 m/s^2                 *)
(*        h        1e-6 m          dh/dt        1e-6 m/s                   *)
(*        m        1e-6 kg         dm/dt        1e-6 kg/s                  *)
(*        V_water  1e-9 m^3        dV_water/dt  1e-9 m^3/s                 *)
(*        pressure 1 Pa            v_e          1e-4 m/s                   *)
(*        C_d      1e-3            pressurePSI  1e-2 PSI                   *)
(*        areas    1e-9 m^2        densities    1e-3 kg/m^3                *)
(*    Divisions round toward minus infinity.                               *)
(***************************************************************************)
EXTENDS Integers, Sequences, FiniteSets, TLC

(***************************************************************************)
(* Fixed-point helpers                                                     *)
(***************************************************************************)
Abs(x) == IF x < 0 THEN -x ELSE x

Max(a, b) == IF a > b THEN a ELSE b

Pow2(n) == 2 ^ n

\* <<q, r>> with ra * b = q * c + r and 0 <= r < c, for 0 <= ra < c < 2^22.
RECURSIVE MulDivRec(_, _, _)
MulDivRec(ra, b, c) ==
    IF b = 0 THEN <<0, 0>>
    ELSE LET p == MulDivRec(ra, b \div 256, c)
             s == p[2] * 256 + (b % 256) * ra
         IN  <<p[1] * 256 + s \div c, s % c>>

\* floor(a * b / c) for a, b >= 0 and 0 < c < 2^22, without forming a * b.
MulDiv(a, b, c) == (a \div c) * b + MulDivRec(a % c, b, c)[1]

\* The same when b * c < 2^31.
MulDivSmall(a, b, c) == (a \div c) * b + ((a % c) * b) \div c

\* Q30 fixed point: the integer q stands for q / 2^30.
Q30 == Pow2(30)

Q15 == Pow2(15)

\* floor(a * b / 2^30) for 0 <= a, b <= 2^30.
MulQ(a, b) ==
    LET ah == a \div Q15
        al == a % Q15
        bh == b \div Q15
        bl == b % Q15
    IN  ah * bh + (ah * bl + al * bh + (al * bl) \div Q15) \div Q15

\* floor(a * 2^30 / b) for 0 <= a <= b < 2^20: long division, 10 bits a time.
DivQ(a, b) ==
    LET s1 == a * 1024
        s2 == (s1 % b) * 1024
        s3 == (s2 % b) * 1024
    IN  (s1 \div b) * 1048576 + (s2 \div b) * 1024 + (s3 \div b)

\* floor(a * q / 2^30) for 0 <= a < 2^22 and 0 <= q <= 2^30: the product is
\* formed in limbs of 15 bits and the two lowest limbs are dropped.
MulIntQ(a, q) ==
    LET al == a % Q15
        ah == a \div Q15
        q0 == q % Q15
        q1 == (q \div Q15) % Q15
        q2 == q \div Q30
        s1 == q1 * al + q0 * ah + (q0 * al) \div Q15
        s2 == q2 * al + q1 * ah + s1 \div Q15
        s3 == q2 * ah + s2 \div Q15
    IN  (s2 % Q15) + Q15 * s3

\* The fifth root of x by Newton's iteration y <- y - (y^5 - x) / (5 y^4):
\* n steps in Q15 from y ...
RECURSIVE Root5Q15(_, _, _)
Root5Q15(x, y, n) ==
    IF n = 0 THEN y
    ELSE LET y2 == (y * y) \div Q15
             y4 == (y2 * y2) \div Q15
             y5 == (y4 * y) \div Q15
         IN  Root5Q15(x, y - ((y5 - x) * Q15) \div (5 * y4), n - 1)

\* ... and one step in Q30, which doubles the number of correct bits.
Root5Q30(x, y) ==
    LET y2 == MulQ(y, y)
        y4 == MulQ(y2, y2)
        y5 == MulQ(y4, y)
    IN  y - ((y5 - x) * 4096) \div ((5 * (y4 \div Q15)) \div 8)

\* x^(1/5) in Q30 for 2^25 <= x <= 2^30 (x / 2^30 in [1/32, 1]).
Root5(x) ==
    LET y15 == Root5Q15(x \div Q15, Q15, 6)
        y30 == Root5Q30(x, Root5Q30(x, y15 * Q15))
    IN  IF y30 > Q30 THEN Q30 ELSE y30

\* Largest s with floor(s * s / 1000) <= r, i.e. floor(sqrt(1000 * r)), s < 2^21.
RECURSIVE SqrtRec(_, _, _)
SqrtRec(r, bit, acc) ==
    IF bit < 0 THEN acc
    ELSE LET cand == acc + Pow2(bit)
         IN  IF MulDivSmall(cand, cand, 1000) <= r
             THEN SqrtRec(r, bit - 1, cand)
             ELSE SqrtRec(r, bit - 1, acc)

Sqrt1000(r) == SqrtRec(r, 20, 0)

(***************************************************************************)
(* IEEE-754 double arithmetic on the values the program's time and ratio   *)
(* variables take.  A number is a sequence of 15-bit limbs, least          *)
(* significant first; a double d is the five-limb number d * 2^61.         *)
(***************************************************************************)
\* Carry (or borrow) propagation from limb i on; limbs may be out of range.
RECURSIVE Carry(_, _, _)
Carry(s, i, c) ==
    IF i > Len(s) THEN <<>>
    ELSE LET x == s[i] + c
         IN  <<x % Q15>> \o Carry(s, i + 1, x \div Q15)

\* The same for the five limbs x1 .. x5 of a double.
Carry5(x1, x2, x3, x4, x5) ==
    LET s2 == x2 + x1 \div Q15
        s3 == x3 + s2 \div Q15
        s4 == x4 + s3 \div Q15
        s5 == x5 + s4 \div Q15
    IN  <<x1 % Q15, s2 % Q15, s3 % Q15, s4 % Q15, s5 % Q15>>

BigAdd(a, b) ==
    IF Len(a) = 5 THEN Carry5(a[1] + b[1], a[2] + b[2], a[3] + b[3], a[4] + b[4], a[5] + b[5])
    ELSE Carry([i \in 1..Len(a) |-> a[i] + b[i]], 1, 0)

BigSub(a, b) == Carry5(a[1] - b[1], a[2] - b[2], a[3] - b[3], a[4] - b[4], a[5] - b[5])

\* a * k for 0 <= k < 2^15.
BigMulInt(a, k) ==
    IF Len(a) = 5 THEN Carry5(a[1] * k, a[2] * k, a[3] * k, a[4] * k, a[5] * k)
    ELSE Carry([i \in 1..Len(a) |-> a[i] * k], 1, 0)

\* a + k for -2^30 <= k <= 2^30.
BigAddInt(a, k) ==
    IF Len(a) = 5 THEN Carry5(a[1] + k, a[2], a[3], a[4], a[5])
    ELSE Carry([i \in 1..Len(a) |-> IF i = 1 THEN a[1] + k ELSE a[i]], 1, 0)

RECURSIVE BigLessRec(_, _, _)
BigLessRec(a, b, i) ==
    IF i = 0 THEN FALSE
    ELSE IF a[i] # b[i] THEN a[i] < b[i]
    ELSE BigLessRec(a, b, i - 1)

BigLess(a, b) == BigLessRec(a, b, Len(a))

BigLeq(a, b) == ~BigLess(b, a)

\* Number of bits of 0 <= x < 2^16.
BitLen2(x) == IF x >= 2 THEN 2 ELSE x

BitLen4(x) == IF x >= 4 THEN 2 + BitLen2(x \div 4) ELSE BitLen2(x)

BitLen8(x) == IF x >= 16 THEN 4 + BitLen4(x \div 16) ELSE BitLen4(x)

IntBitLen(x) == IF x >= 256 THEN 8 + BitLen8(x \div 256) ELSE BitLen8(x)

RECURSIVE BitLenRec(_, _)
BitLenRec(a, i) ==
    IF i = 0 THEN 0
    ELSE IF a[i] # 0 THEN 15 * (i - 1) + IntBitLen(a[i])
    ELSE BitLenRec(a, i - 1)

BitLen(a) == BitLenRec(a, Len(a))

\* Bit s (0 = least significant) of a.
Bit(a, s) == (a[(s \div 15) + 1] \div Pow2(s % 15)) % 2

\* a mod 2^s for 0 < s <= 30.
LowBits(a, s) ==
    IF s <= 15 THEN a[1] % Pow2(s)
    ELSE a[1] + Q15 * (a[2] % Pow2(s - 15))

\* Round to 53 significant bits, ties to even (the IEEE-754 default mode).
Round53(a) ==
    LET s == BitLen(a) - 53
    IN  IF s <= 0 THEN a
        ELSE LET low == LowBits(a, s)
                 half == Pow2(s - 1)
                 up == low > half \/ (low = half /\ Bit(a, s) = 1)
             IN  BigAddInt(a, (IF up THEN Pow2(s) ELSE 0) - low)

DblAdd(a, b) == Round53(BigAdd(a, b))

\* a - b for a >= b.
DblSub(a, b) == Round53(BigSub(a, b))

\* a * k for an integer 0 <= k < 2^15 (k is itself an exact double).
DblMulInt(a, k) == Round53(BigMulInt(a, k))

\* Math.floor of a double below 2^14.
DblFloor(a) == a[5] \div 2

\* The double of an integer 0 <= k < 2^14.
DblInt(k) == <<0, 0, 0, 0, 2 * k>>

\* Long division of a by 0 < d < 2^15 from limb i down: <<quotient, remainder>>.
RECURSIVE BigDivRec(_, _, _, _)
BigDivRec(a, d, i, rem) ==
    IF i = 0 THEN <<(<<>>), rem>>
    ELSE LET x == rem * Q15 + a[i]
             rest == BigDivRec(a, d, i - 1, x % d)
         IN  <<rest[1] \o <<x \div d>>, rest[2]>>

\* The double nearest to the decimal literal n / d (0 < n < 2^14, 0 < d < 2^15,
\* n / d >= 2^-9): the quotient is formed with 15 guard bits and a sticky bit.
DblLit(n, d) ==
    LET qr == BigDivRec(<<0, 0, 0, 0, 0, 2 * n>>, d, 6, 0)
        q == qr[1]
        sticky == IF qr[2] # 0 /\ q[1] % 2 = 0 THEN 1 ELSE 0
        r == Round53([q EXCEPT ![1] = q[1] + sticky])
    IN  <<r[2], r[3], r[4], r[5], r[6]>>

\* Nearest integer to a * k * 1000 for a double 0 <= a < 1 and 0 < k < 2^10.
DblScale(a, k) ==
    LET p == BigMulInt(BigMulInt(a \o <<0>>, k), 1000)
        q == BigAdd(p, <<0, 0, 0, 0, 1, 0>>)
    IN  q[5] \div 2 + q[6] * 16384

(***************************************************************************)
(* Physical constants (the source's constants object, lines 4-14)          *)
(***************************************************************************)
\* 9.81 m/s^2 in 1e-3 m/s^2.
g == 9810

\* 1.225 kg/m^3 in 1e-3 kg/m^3.
rho_air == 1225

\* 1000 kg/m^3 in kg/m^3.
rho_water == 1000

\* 101325 Pa.
P_atm == 101325

\* The adiabatic exponent 1.4 in fifths: Math.pow(x, gamma) is x^(7/5).
gamma == 7

\* 8e-4 m^3 in 1e-9 m^3.
tank_volume == 800000

\* 0.075 m in 1e-3 m.
d_bottle == 75

\* 0.026 m in 1e-3 m.
d_nozzle == 26

\* 0.0765 kg in 1e-6 kg.
mass_empty == 76500

\* Math.PI in 1e-6.
PI == 3141593

\* Math.PI * (d / 2) ** 2 in 1e-9 m^2.
A_bottle == MulDiv(d_bottle * d_bottle * 250, PI, 1000000)

A_nozzle == MulDiv(d_nozzle * d_nozzle * 250, PI, 1000000)

\* Pa per PSI, 6894.76, in 1e-2 Pa.
PsiToPa == 689476

\* A variant in which a step does not move the time.
dtNone == <<0, 0, 0, 0, 0>>

\* The time step 0.002 s as the double the source adds to t ...
dt == DblLit(2, 1000)

\* ... and in 1e-3 s for the fixed-point integration.
dt_ms == 2

\* The simulated-time ceiling of the loop, 15 s.
T_MAX == 15

\* Trajectory samples per second: Math.floor(t * 200).
SAMPLE_RATE == 200

(***************************************************************************)
(* rk4Step and rocketODEs                                                  *)
(***************************************************************************)
\* x^(gamma/5) in Q30 for 0 <= x <= 2^30.
RECURSIVE PowQ(_, _)
PowQ(x, n) == IF n = 0 THEN Q30 ELSE MulQ(x, PowQ(x, n - 1))

PowGamma(x) == PowQ(Root5(x), gamma)

\* rho_water * (1 - (d_nozzle / d_bottle)^4) in 1e-3 kg/m^3.
denom ==
    LET beta2 == (d_nozzle * d_nozzle * 1000000) \div (d_bottle * d_bottle)
        beta4 == MulDiv(beta2, beta2, 1000000)
    IN  (rho_water * (1000000 - beta4)) \div 1000

\* 0.5 * rho_air * A_bottle in 1e-6 kg/m.
half_rho_A == MulDiv(A_bottle, rho_air, 2000000)

\* -0.5 * rho_air * C_d * A_bottle * v * |v| / m in 1e-3 m/s^2, for |v| up to
\* 400 m/s, C_d up to 2 and |m| up to 1 kg. The division takes the sign of m
\* as it finds it.
DragAccel(v, m, c_d) ==
    LET v1 == Abs(v) \div 1000
        v2 == MulDivSmall(v1, v1, 100)
        f == MulDivSmall(v2, half_rho_A, 1000)
        a == MulDivSmall(f, c_d, Abs(m)) \div 10
    IN  IF (v >= 0) = (m >= 0) THEN -a ELSE a

\* Lines 39-41: the air volume, the absolute pressure and the pressure over
\* the atmosphere when the tank holds V_water.
V_air(V_water) == tank_volume - V_water

P_1(V_water, params) ==
    MulIntQ(params.P_0_abs, PowGamma(DivQ(params.V_air_0, V_air(V_water))))

deltaP(V_water, params) == P_1(V_water, params) - P_atm

\* A variant that weighs the water leaving with the density of air.
dm_dtAir(dV_water_dt) == -MulDiv(-dV_water_dt, rho_air, 1000)

\* Line 51: rho_water * dV_water_dt, in 1e-6 kg/s for a flow in 1e-9 m^3/s.
dm_dt(dV_water_dt) == -MulDiv(-dV_water_dt, rho_water, 1000)

\* The derivative [dv/dt, dh/dt, dm/dt, dV_water/dt] at state y.
rocketODEs(y, params) ==
    LET v == y[1]
        m == y[3]
        V_water == y[4]
        drag_accel == DragAccel(v, m, params.C_d)
        delta_P == deltaP(V_water, params)
        v_e == Sqrt1000(MulDiv(2 * delta_P, 100000000, denom))
        dV_water_dt == -MulDiv(v_e, A_nozzle, 10000)
        thrust == MulDiv(MulDiv(v_e, v_e, 1000), MulDiv(A_nozzle, rho_water, 1000), 1000000)
        thrust_accel == MulDiv(thrust, 10000, m)
        dv_dt == thrust_accel - g + drag_accel
    IN  IF V_water <= 0 THEN <<-g + drag_accel, v, 0, 0>>
        ELSE IF delta_P <= 0 THEN <<-g + drag_accel, v, 0, 0>>
        ELSE <<dv_dt, v, dm_dt(dV_water_dt), dV_water_dt>>

\* Seconds-to-unit divisor of each component: dv/dt is in 1e-3 m/s^2 and v in
\* 1e-6 m/s, the other rates are per second of the unit they change.
RateDiv == <<1, 1000, 1000, 1000>>

\* yi + (step / n) * ki for a step in 1e-3 s.
Advance(yi, ki, i, step, n) == yi + (step * ki) \div (n * RateDiv[i])

\* y.map((yi, i) => yi + step / n * k[i]).
AdvanceAll(y, k, step, n) == [i \in 1..4 |-> Advance(y[i], k[i], i, step, n)]

\* Line 25, given the four slopes.
rk4Sum(y, step, k1, k2, k3, k4) ==
    [i \in 1..4 |-> Advance(y[i], k1[i] + 2 * k2[i] + 2 * k3[i] + k4[i], i, step, 6)]

\* Lines 24-25, given k1, k2 and k3.
rk4Stage4(y, step, params, k1, k2, k3) ==
    rk4Sum(y, step, k1, k2, k3, rocketODEs(AdvanceAll(y, k3, step, 1), params))

\* Lines 23-25, given k1 and k2.
rk4Stage3(y, step, params, k1, k2) ==
    rk4Stage4(y, step, params, k1, k2, rocketODEs(AdvanceAll(y, k2, step, 2), params))

\* Lines 22-25, given k1.
rk4Stage2(y, step, params, k1) ==
    rk4Stage3(y, step, params, k1, rocketODEs(AdvanceAll(y, k1, step, 2), params))

\* Lines 20-26: each slope is computed once and handed on.
rk4Step(y, step, params) == rk4Stage2(y, step, params, rocketODEs(y, params))

(***************************************************************************)
(* State                                                                   *)
(***************************************************************************)
VARIABLES
    pc,           \* "idle", "sim" (in runSimulation's loop), "simDone",
                  \* "opt" (in findOptimal's loop), "optDone"
    caller,       \* who called runSimulation: "host" or "findOptimal"
    fillRatio,    \* runSimulation's arguments
    C_d,
    pressurePSI,
    params,       \* [V_air_0, C_d, P_0_abs]
    y,            \* <<v, h, m, V_water>>
    t,
    trajectory,   \* sequence of [t, h, v]
    maxH,
    maxHTime,
    burnoutTime,
    burnoutAlt,
    burnoutVel,
    r,            \* findOptimal's locals
    bestRatio,
    bestH,
    data,         \* sequence of [ratio, maxH]
    steps,        \* not in the source: the iterations the loop has made
    noted         \* not in the source: what an observer has written down of
                  \* the first result a host call returned

simVars == <<fillRatio, C_d, pressurePSI, params, y, t, trajectory, maxH, maxHTime,
             burnoutTime, burnoutAlt, burnoutVel, steps>>

optVars == <<r, bestRatio, bestH, data>>

vars == <<pc, caller, simVars, optVars, noted>>

\* JavaScript's null, and a number in a variable that may also hold null: the
\* times are tuples already, the altitude and the velocity are wrapped.
Null == <<>>

Some(x) == <<x>>

\* The double 0.
Zero == DblInt(0)

(***************************************************************************)
(* Inputs                                                                  *)
(***************************************************************************)
\* The fill ratio n / 1000 as the host passes it (a parsed decimal).
Ratio(n) == DblLit(n, 1000)

\* <<fill ratio in 1e-3, C_d in 1e-3, pressure in 1e-2 PSI>>: the default
\* sliders; a nearly full bottle at 20 PSI and at 1 PSI; 1 % water at
\* 0.23 PSI and at 1 PSI; 17 % water at 0.4 PSI; and a low-drag,
\* high-pressure flight that is still airborne after 15 s.
SimInputs ==
    { <<330, 400, 6000>>,
      <<950, 400, 2000>>,
      <<950, 400, 100>>,
      <<10, 400, 23>>,
      <<10, 400, 100>>,
      <<170, 400, 40>>,
      <<300, 10, 28000>>,
      <<2, 400, 40000>> }

\* Arguments outside the documented domain 0 < fillRatio < 1: the empty
\* bottle, fillRatio = 0.
OutsideInputs ==
    { <<0, 400, 6000>> }

\* <<C_d in 1e-3, pressure in 1e-2 PSI>>.
OptInputs ==
    { <<400, 10>>,
      <<400, 200>> }

(***************************************************************************)
(* Locals exist only during a call: outside it they hold these values.     *)
(***************************************************************************)
NoRunSimulation ==
    /\ fillRatio = Zero
    /\ params = [V_air_0 |-> 0, C_d |-> 0, P_0_abs |-> 0]
    /\ y = <<0, 0, 0, 0>>
    /\ t = Zero
    /\ trajectory = <<>>
    /\ maxH = 0
    /\ maxHTime = Zero
    /\ burnoutTime = Null
    /\ burnoutAlt = Null
    /\ burnoutVel = Null
    /\ steps = 0

NoFindOptimal ==
    /\ r = Zero
    /\ bestRatio = Zero
    /\ bestH = 0
    /\ data = <<>>

DropRunSimulation ==
    /\ fillRatio' = Zero
    /\ params' = [V_air_0 |-> 0, C_d |-> 0, P_0_abs |-> 0]
    /\ y' = <<0, 0, 0, 0>>
    /\ t' = Zero
    /\ trajectory' = <<>>
    /\ maxH' = 0
    /\ maxHTime' = Zero
    /\ burnoutTime' = Null
    /\ burnoutAlt' = Null
    /\ burnoutVel' = Null
    /\ steps' = 0

DropFindOptimal ==
    /\ r' = Zero
    /\ bestRatio' = Zero
    /\ bestH' = 0
    /\ data' = <<>>

(***************************************************************************)
(* runSimulation                                                           *)
(***************************************************************************)
\* A trajectory that starts empty: the launch sample would be missing.
NoInitialSample == <<>>

\* A variant in which the sample array outlives the call that filled it.
StaleTrajectory == trajectory \o << [t |-> Zero, h |-> 0, v |-> 0] >>

\* Line 70: the trajectory starts with the launch sample.
InitialTrajectory == << [t |-> Zero, h |-> 0, v |-> 0] >>

\* Lines 60-75: the locals of a fresh call.
EnterRunSimulation(ratio, cd, psi, who) ==
    LET V_water_0 == DblScale(ratio, tank_volume \div 1000)
        V_air_0 == tank_volume - V_water_0
        P_0_abs == MulDiv(psi, PsiToPa, 10000) + P_atm
        m_0 == mass_empty + MulDiv(V_water_0, rho_water, 1000)
    IN  /\ pc' = "sim"
        /\ caller' = who
        /\ fillRatio' = ratio
        /\ C_d' = cd
        /\ pressurePSI' = psi
        /\ params' = [V_air_0 |-> V_air_0, C_d |-> cd, P_0_abs |-> P_0_abs]
        /\ y' = <<0, 0, m_0, V_water_0>>
        /\ t' = Zero
        /\ trajectory' = InitialTrajectory
        /\ maxH' = 0
        /\ maxHTime' = Zero
        /\ burnoutTime' = Null
        /\ burnoutAlt' = Null
        /\ burnoutVel' = Null
        /\ steps' = 0

\* The host calls runSimulation(fillRatio, dragCoeff, pressure).
CallRunSimulation ==
    /\ pc \in {"idle", "simDone", "optDone"}
    /\ \E in \in SimInputs : EnterRunSimulation(Ratio(in[1]), in[2], in[3], "host")
    /\ DropFindOptimal
    /\ UNCHANGED noted

\* A caller that does not keep to the documented domain calls runSimulation:
\* lines 59-68 compute the locals from whatever they are given.
CallRunSimulationOutside ==
    /\ pc \in {"idle", "simDone", "optDone"}
    /\ \E in \in OutsideInputs : EnterRunSimulation(Ratio(in[1]), in[2], in[3], "host")
    /\ DropFindOptimal
    /\ UNCHANGED noted

\* LoopCond with > for >=: the loop would wait for a positive altitude and
\* never be entered from the pad.
LoopCondLifted == BigLess(t, DblInt(T_MAX)) /\ y[2] > 0

\* Line 77: while (t < 15 && y[1] >= 0).
\* A variant without the ceiling on simulated time.
LoopCondNoCeiling == y[2] >= 0

LoopCond == BigLess(t, DblInt(T_MAX)) /\ y[2] >= 0

\* Line 92: Math.floor(t * 200) > Math.floor((t - dt) * 200).
\* A variant that also samples when the 5 ms slot number stays the same.
SampleDueOrSame(tn) ==
    DblFloor(DblMulInt(tn, SAMPLE_RATE)) >= DblFloor(DblMulInt(DblSub(tn, dt), SAMPLE_RATE))

SampleDue(tn) ==
    DblFloor(DblMulInt(tn, SAMPLE_RATE)) > DblFloor(DblMulInt(DblSub(tn, dt), SAMPLE_RATE))

\* Burn reading the water volume of the state before the step: the burnout
\* would be recorded one step late.
BurnLate(yn) == y[4] <= 0 /\ burnoutTime = Null

\* Burn without the "not yet recorded" test: every dry step would overwrite
\* the burnout markers.
BurnAlways(yn) == yn[4] <= 0

\* Line 81: y[3] <= 0 && burnoutTime === null, on the state after the step.
Burn(yn) == yn[4] <= 0 /\ burnoutTime = Null

\* Peak with >= for >: a later step at the same altitude would take over
\* maxHTime.
PeakOrTie(yn) == yn[2] >= maxH

\* Line 87: y[1] > maxH, on the state after the step.
Peak(yn) == yn[2] > maxH

\* Lines 78-94 with the new state yn and the new time tn in hand: they
\* become y and t, and the burnout, the maximum and the trajectory follow.
StepTo(yn, tn) ==
    /\ y' = yn
    /\ t' = tn
    /\ burnoutTime' = IF Burn(yn) THEN tn ELSE burnoutTime
    /\ burnoutAlt' = IF Burn(yn) THEN Some(yn[2]) ELSE burnoutAlt
    /\ burnoutVel' = IF Burn(yn) THEN Some(yn[1]) ELSE burnoutVel
    /\ maxH' = IF Peak(yn) THEN yn[2] ELSE maxH
    /\ maxHTime' = IF Peak(yn) THEN tn ELSE maxHTime
    /\ trajectory' = IF SampleDue(tn)
                     THEN Append(trajectory, [t |-> tn, h |-> Max(0, yn[2]), v |-> yn[1]])
                     ELSE trajectory

\* Lines 77-95: one iteration of the loop.
RunSimulationStep ==
    /\ pc = "sim"
    /\ LoopCond
    /\ StepTo(rk4Step(y, dt_ms, params), DblAdd(t, dt))
    /\ steps' = steps + 1
    /\ UNCHANGED <<pc, caller, fillRatio, C_d, pressurePSI, params, optVars, noted>>

\* Line 97, to the host.
RunSimulationReturn ==
    /\ pc = "sim"
    /\ ~LoopCond
    /\ caller = "host"
    /\ pc' = "simDone"
    /\ UNCHANGED <<caller, simVars, optVars, noted>>

(***************************************************************************)
(* findOptimal                                                             *)
(***************************************************************************)
\* Lines 102-106: the locals and the loop variable.
EnterFindOptimal(cd, psi) ==
    /\ C_d' = cd
    /\ pressurePSI' = psi
    /\ caller' = "host"
    /\ bestRatio' = DblLit(33, 100)
    /\ bestH' = 0
    /\ data' = <<>>
    /\ r' = DblLit(5, 100)
    /\ pc' = "opt"
    /\ DropRunSimulation

\* The host calls findOptimal(dragCoeff, pressure).
CallFindOptimal ==
    /\ pc \in {"idle", "simDone", "optDone"}
    /\ \E in \in OptInputs : EnterFindOptimal(in[1], in[2])
    /\ UNCHANGED noted

\* Line 106: r <= 0.95.
GridCond == BigLeq(r, DblLit(95, 100))

\* Lines 106-107: the loop test holds and runSimulation(r, C_d, pressurePSI) starts.
FindOptimalIter ==
    /\ pc = "opt"
    /\ GridCond
    /\ EnterRunSimulation(r, C_d, pressurePSI, "findOptimal")
    /\ UNCHANGED <<optVars, noted>>

\* Better comparing with 0 for bestH: the last grid point that flew at all
\* would win.
BetterThanZero == maxH > 0

\* Line 109: maxH > bestH, on the maxH runSimulation returned.
Better == maxH > bestH

\* Lines 107-112 and the loop's r += 0.02, once runSimulation has returned.
FindOptimalCollect ==
    /\ pc = "sim"
    /\ ~LoopCond
    /\ caller = "findOptimal"
    /\ data' = Append(data, [ratio |-> r, maxH |-> maxH])
    /\ bestH' = IF Better THEN maxH ELSE bestH
    /\ bestRatio' = IF Better THEN r ELSE bestRatio
    /\ r' = DblAdd(r, DblLit(2, 100))
    /\ pc' = "opt"
    /\ UNCHANGED <<caller, simVars, noted>>

\* Line 115.
FindOptimalReturn ==
    /\ pc = "opt"
    /\ ~GridCond
    /\ pc' = "optDone"
    /\ UNCHANGED <<caller, simVars, optVars, noted>>

(***************************************************************************)
(* Specification                                                           *)
(***************************************************************************)
Init ==
    /\ pc = "idle"
    /\ caller = "host"
    /\ C_d = 0
    /\ pressurePSI = 0
    /\ NoRunSimulation
    /\ NoFindOptimal
    /\ noted = Null

Next ==
    \/ CallRunSimulation
    \/ RunSimulationStep
    \/ RunSimulationReturn
    \/ CallFindOptimal
    \/ FindOptimalIter
    \/ FindOptimalCollect
    \/ FindOptimalReturn

Spec == Init /\ [][Next]_vars

\* The same program with callers that may pass arguments outside the
\* documented domain.
NextAnyInput ==
    \/ Next
    \/ CallRunSimulationOutside

SpecAnyInput == Init /\ [][NextAnyInput]_vars

\* ---------------------------------------------------------------------------
\* A host that repeats calls and compares what they return.

\* Line 97: the object runSimulation returns.
Result ==
    [ trajectory  |-> trajectory,
      maxH        |-> maxH,
      maxHTime    |-> maxHTime,
      burnoutTime |-> burnoutTime,
      burnoutAlt  |-> burnoutAlt,
      burnoutVel  |-> burnoutVel ]

\* The arguments of the run in progress or just returned.
Inputs == <<fillRatio, C_d, pressurePSI>>

RepeatInputs ==
    { <<950, 400, 2000>>,
      <<10, 400, 100>>,
      <<170, 400, 40>> }

RepeatOptInputs ==
    { <<400, 10>> }

\* Once a result is written down, any later call that is not the same call
\* counts as a call in between.
NoteOther(same) ==
    noted' = IF noted # Null /\ ~same
             THEN Some([noted[1] EXCEPT !.other = TRUE])
             ELSE noted

CallRunSimulationAgain ==
    /\ pc \in {"idle", "simDone", "optDone"}
    /\ \E in \in RepeatInputs :
         /\ EnterRunSimulation(Ratio(in[1]), in[2], in[3], "host")
         /\ NoteOther(noted # Null /\ noted[1].input = <<Ratio(in[1]), in[2], in[3]>>)
    /\ DropFindOptimal

CallFindOptimalAgain ==
    /\ pc \in {"idle", "simDone", "optDone"}
    /\ \E in \in RepeatOptInputs : EnterFindOptimal(in[1], in[2])
    /\ NoteOther(FALSE)

\* runSimulation returns to the host, and the host writes the result down.
RunSimulationReturnNoted ==
    /\ pc = "sim"
    /\ ~LoopCond
    /\ caller = "host"
    /\ noted = Null
    /\ noted' = Some([input |-> Inputs, result |-> Result, other |-> FALSE])
    /\ pc' = "simDone"
    /\ UNCHANGED <<caller, simVars, optVars>>

NextRepeat ==
    \/ CallRunSimulationAgain
    \/ RunSimulationStep
    \/ RunSimulationReturn
    \/ RunSimulationReturnNoted
    \/ CallFindOptimalAgain
    \/ FindOptimalIter
    \/ FindOptimalCollect
    \/ FindOptimalReturn

SpecRepeat == Init /\ [][NextRepeat]_vars

(***************************************************************************)
(* Properties                                                              *)
(***************************************************************************)
\* A call of runSimulation is in its loop or has returned to the host.
InRun == pc \in {"sim", "simDone"}

\* A transition that is one iteration of runSimulation's loop.
IsStep == pc = "sim" /\ pc' = "sim"

\* A transition that enters runSimulation.
IsEntry == pc # "sim" /\ pc' = "sim"

\* C1, state part: the three burnout markers are null together, and they are
\* null exactly while the water volume is still positive.
C1_Markers ==
    InRun =>
        /\ (burnoutTime = Null) = (burnoutAlt = Null)
        /\ (burnoutTime = Null) = (burnoutVel = Null)
        /\ (burnoutTime = Null) = (y[4] > 0)

\* C1, entry part: a run starts with the three markers null.
C1_Entry ==
    IsEntry => burnoutTime' = Null /\ burnoutAlt' = Null /\ burnoutVel' = Null

\* C1, step part: a step that ends with water volume <= 0 while no burnout
\* is recorded writes that step's time, altitude and velocity; a step that
\* ends with water left writes nothing; markers once written never change.
C1_Step ==
    IsStep =>
        /\ burnoutTime # Null => UNCHANGED <<burnoutTime, burnoutAlt, burnoutVel>>
        /\ burnoutTime = Null /\ y'[4] <= 0 =>
               /\ burnoutTime' = t'
               /\ burnoutAlt' = Some(y'[2])
               /\ burnoutVel' = Some(y'[1])
        /\ burnoutTime = Null /\ y'[4] > 0 =>
               /\ burnoutTime' = Null
               /\ burnoutAlt' = Null
               /\ burnoutVel' = Null

\* C1: the burnout markers are written exactly once, at the first step after
\* which the water volume is <= 0, with that step's time, altitude and
\* velocity; no later step overwrites them; all three stay null for as long
\* as the water volume has not reached <= 0.
C1_BurnoutOnce == []C1_Markers /\ [][C1_Entry /\ C1_Step]_vars

\* C1: a run that recorded its burnout at an earlier step, has taken further
\* steps with the tank dry, and still holds the markers of the earlier step.
C1_Witness ==
    /\ pc = "sim"
    /\ burnoutTime # Null
    /\ BigLess(burnoutTime, t)
    /\ y[4] <= 0
    /\ burnoutAlt # Some(y[2])

\* C2, state part: maxH is never negative, no altitude seen so far exceeds
\* it, it is 0 with maxHTime 0 while no altitude has exceeded 0, and maxHTime
\* is the time of a completed step.
C2_Running ==
    InRun =>
        /\ maxH >= 0
        /\ y[2] <= maxH
        /\ maxH = 0 => maxHTime = Zero
        /\ BigLeq(maxHTime, t)

\* C2, entry part: a run starts with maxH = 0 and maxHTime = 0.
C2_Entry == IsEntry => maxH' = 0 /\ maxHTime' = Zero

\* C2, step part: a step raises maxH to its altitude and maxHTime to its time
\* exactly when its altitude is strictly above maxH; a step at an equal or
\* lower altitude leaves both alone.
C2_Step ==
    IsStep =>
        /\ maxH' = Max(maxH, y'[2])
        /\ y'[2] > maxH => maxHTime' = t'
        /\ y'[2] <= maxH => maxHTime' = maxHTime

\* C2: after every step maxH is the largest altitude of the completed steps
\* (0 if none exceeded 0) and maxHTime the earliest step time at which it was
\* reached: a later step with an equal altitude does not change maxHTime.
C2_MaxAltitude == []C2_Running /\ [][C2_Entry /\ C2_Step]_vars

\* C2: a step has just ended at exactly the running maximum, which an earlier
\* step set, and maxHTime is still the earlier step's time.
C2_Witness ==
    /\ pc = "sim"
    /\ maxH > 0
    /\ y[2] = maxH
    /\ BigLess(maxHTime, t)

\* C3 as the specification words it: a returned run has come back to an
\* altitude <= 0 after having been above 0, or its time exceeds the ceiling.
C3_AfterLiftoff ==
    pc = "simDone" =>
        \/ maxH > 0 /\ y[2] <= 0
        \/ BigLess(DblInt(T_MAX), t)

\* C3, step part: a step is taken only while the time is below the ceiling and
\* the altitude is not negative.
C3_Step == IsStep => BigLess(t, DblInt(T_MAX)) /\ y[2] >= 0

\* C3, leaving part: the loop is left (to the host or to findOptimal) only
\* from a state whose altitude is negative or whose time has reached the
\* ceiling, and leaving changes neither.
C3_Leave ==
    pc = "sim" /\ pc' # "sim" =>
        /\ y[2] < 0 \/ BigLeq(DblInt(T_MAX), t)
        /\ UNCHANGED <<y, t>>

\* C3, state part: a returned run ended below the ground or at the ceiling.
C3_Returned == pc = "simDone" => y[2] < 0 \/ BigLeq(DblInt(T_MAX), t)

\* C3, amended: runSimulation stops integrating exactly when the altitude
\* after a step is below 0, whether or not it was ever above 0, or when the
\* time has reached the 15 s ceiling; it does not stop before one of the two
\* holds (an altitude of exactly 0 does not stop it) and takes no step after.
C3_StopRule == []C3_Returned /\ [][C3_Step /\ C3_Leave]_vars

\* C3: a run has returned before the ceiling with a negative altitude and
\* without ever having been above 0.
C3_Witness ==
    /\ pc = "simDone"
    /\ maxH = 0
    /\ y[2] < 0
    /\ BigLess(t, DblInt(T_MAX))

\* C4: the mass is at least mass_empty at every step and equals mass_empty at
\* every step once the water volume is <= 0.
C4_MassFloor ==
    InRun =>
        /\ y[3] >= mass_empty
        /\ y[4] <= 0 => y[3] = mass_empty

\* C5: the water volume never goes below 0 (once it has reached 0 it is 0 at
\* every later step).
C5_WaterFloor == InRun => y[4] >= 0

\* C6 as the specification words it: in every returned result with a recorded
\* burnout, maxHTime >= burnoutTime.
C6_ApogeeAfterBurnout ==
    pc = "simDone" /\ burnoutTime # Null => BigLeq(burnoutTime, maxHTime)

\* C6, step part: after a step with a burnout on record, maxHTime >=
\* burnoutTime holds exactly if the step raised the running maximum or the
\* order held already before the step.
C6_Step ==
    IsStep /\ burnoutTime' # Null =>
        BigLeq(burnoutTime', maxHTime')
            <=> \/ y'[2] > maxH
                \/ burnoutTime # Null /\ BigLeq(burnoutTime, maxHTime)

\* C6, returning part: the result handed to the host holds the loop's values.
C6_Return ==
    pc = "sim" /\ pc' = "simDone" => UNCHANGED <<maxHTime, burnoutTime>>

\* C6, amended: a returned result with a recorded burnout has maxHTime >=
\* burnoutTime exactly when the burnout step or a later step raised the
\* running maximum altitude; a rocket that peaked before its water ran out
\* returns maxHTime < burnoutTime.
C6_OrderFollowsPeak == [][C6_Step /\ C6_Return]_vars

\* C6: a returned result whose apogee came after its burnout.
C6_Witness ==
    /\ pc = "simDone"
    /\ burnoutTime # Null
    /\ BigLess(burnoutTime, maxHTime)

\* findOptimal holds results: it is between two grid points or has returned.
OptHolds == pc \in {"opt", "optDone"} /\ data # <<>>

\* C7: bestH is the maximum of maxH over the entries of data, in the result
\* findOptimal returns and after every grid point on the way.
C7_BestIsMax ==
    OptHolds =>
        /\ \A i \in 1..Len(data) : data[i].maxH <= bestH
        /\ \E i \in 1..Len(data) : data[i].maxH = bestH

\* C7: findOptimal has returned a positive bestH that is not the maxH of the
\* last grid point.
C7_Witness ==
    /\ pc = "optDone"
    /\ bestH > 0
    /\ data[Len(data)].maxH < bestH

\* C8: bestRatio is the ratio of the first entry of data, in sweep order,
\* whose maxH is the maximum over data (and so equals bestH), also when every
\* entry has the same maxH.
C8_FirstMax ==
    pc = "optDone" =>
        \E i \in 1..Len(data) :
            /\ data[i].ratio = bestRatio
            /\ data[i].maxH = bestH
            /\ \A j \in 1..Len(data) : data[j].maxH <= data[i].maxH
            /\ \A j \in 1..(i - 1) : data[j].maxH < data[i].maxH

\* C9: data has one entry per point of the grid 0.05, 0.07, ..., 0.95, that
\* is 46 entries, the first at 0.05 and the last at 0.95.
C9_GridCoverage ==
    pc = "optDone" =>
        /\ Len(data) = 46
        /\ data[1].ratio = DblLit(5, 100)
        /\ data[Len(data)].ratio = DblLit(95, 100)

\* C10, state part: the trajectory of a run starts with the sample (0, 0, 0),
\* its last sample is later than the one before it and not later than the
\* run's time; when the loop has ended every sample is later than the one
\* before it.
C10_Ordered ==
    InRun =>
        LET n == Len(trajectory)
        IN  /\ n >= 1
            /\ trajectory[1] = [t |-> Zero, h |-> 0, v |-> 0]
            /\ BigLeq(trajectory[n].t, t)
            /\ n >= 2 => BigLess(trajectory[n - 1].t, trajectory[n].t)
            /\ pc = "simDone" =>
                   \A i \in 1..(n - 1) : BigLess(trajectory[i].t, trajectory[i + 1].t)

\* C10, step part: a step leaves the trajectory alone or appends one sample
\* to it, and returning leaves it alone.
C10_Append ==
    /\ IsStep =>
           \/ UNCHANGED trajectory
           \/ /\ Len(trajectory') = Len(trajectory) + 1
              /\ SubSeq(trajectory', 1, Len(trajectory)) = trajectory
    /\ pc = "sim" /\ pc' = "simDone" => UNCHANGED trajectory

\* C10: the trajectory is append-only, its first sample is (t=0, h=0, v=0)
\* and its sample times are strictly increasing, in every run.
C10_Trajectory == []C10_Ordered /\ [][C10_Append]_vars

\* C10: a run has returned a trajectory of at least three samples.
C10_Witness ==
    /\ pc = "simDone"
    /\ Len(trajectory) >= 3

\* C11: a call with fillRatio <= 0 or fillRatio >= 1 is rejected at the
\* boundary: no run with such a fillRatio ever takes an integration step or
\* returns a result.
C11_FailFast ==
    InRun /\ t # Zero => BigLess(Zero, fillRatio) /\ BigLess(fillRatio, DblInt(1))

\* C12: a run returned to the host with the inputs of the run whose result
\* was written down has that same result (samples, maximum, burnout
\* markers), whatever runSimulation and findOptimal calls were made before
\* it or in between.
C12_SameResult ==
    pc = "simDone" /\ noted # Null /\ noted[1].input = Inputs
        => noted[1].result = Result

\* A second run with the noted inputs has returned after some other call.
C12_Witness ==
    /\ pc = "simDone"
    /\ noted # Null
    /\ noted[1].input = Inputs
    /\ noted[1].other
    /\ noted[1].result = Result
    /\ Len(trajectory) > 1

\* floor(d / 5 ms) of a time d, computed without rounding.
Slot(d) == DblFloor(BigMulInt(d, SAMPLE_RATE))

\* The number of the 2 ms step that ends nearest to the time d.
StepOf(d) == DblFloor(BigMulInt(BigAdd(d, DblLit(1, 1000)), 1000 \div dt_ms))

\* The times of the last two samples.
LastT == trajectory[Len(trajectory)].t
PrevT == trajectory[Len(trajectory) - 1].t

\* The difference of the last two sample times, as the subtraction of the
\* two doubles gives it.
LastGap == DblSub(LastT, PrevT)

\* C13 as stated: the recorded times of consecutive samples are at least
\* 0.004 and at most 0.006 apart.
C13_GapExact ==
    InRun /\ Len(trajectory) >= 2
        => /\ BigLeq(DblLit(4, 1000), LastGap)
           /\ BigLeq(LastGap, DblLit(6, 1000))

C13_State ==
    InRun => /\ Len(trajectory) = 1 + Slot(t)
             /\ steps = StepOf(t)
             /\ Len(trajectory) >= 2 => StepOf(LastT) - StepOf(PrevT) \in {2, 3}

C13_Step ==
    IsStep => /\ Len(trajectory') = Len(trajectory) + (IF Slot(t') > Slot(t) THEN 1 ELSE 0)
              /\ Slot(t') <= Slot(t) + 1
              /\ SubSeq(trajectory', 1, Len(trajectory)) = trajectory
              /\ Slot(t') > Slot(t) => trajectory'[Len(trajectory')].t = t'

\* C13: a step appends a sample exactly when floor(t / 5 ms) is larger than
\* at the previous step, and then exactly one, so that the sample count is
\* always 1 + floor(t / 5 ms); consecutive samples are two or three steps
\* (4 ms or 6 ms of step time) apart.
C13_Sampling == []C13_State /\ [][C13_Step]_vars

\* A run in which the last two samples are two steps apart and
\* their recorded times differ by less than 0.004.
C13_Witness ==
    /\ InRun
    /\ Len(trajectory) >= 4
    /\ StepOf(LastT) - StepOf(PrevT) = 2
    /\ BigLess(LastGap, DblLit(4, 1000))

\* 15 s / 2 ms.
MaxSteps == (T_MAX * 1000) \div dt_ms

\* 15 s plus one step.
Ceiling == DblAdd(DblInt(T_MAX), dt)

NoLater(d) == d = Null \/ BigLeq(d, Ceiling)

C14_Bound ==
    InRun => /\ steps <= MaxSteps
             /\ steps = MaxSteps => ~LoopCond
             /\ BigLeq(DblInt(T_MAX), t) => ~LoopCond
             /\ NoLater(t)
             /\ NoLater(maxHTime)
             /\ NoLater(burnoutTime)
             /\ NoLater(LastT)
             /\ caller \in {"host", "findOptimal"}

C14_Progress ==
    IsStep => BigLess(t, t') /\ steps' = steps + 1

\* C14: every runSimulation call terminates. Each step moves t forward and
\* counts one more step, the loop condition is false once t has reached 15 s,
\* no run takes more than 15 s / 2 ms = 7500 steps, a run that has taken
\* that many cannot continue, and no time a run holds or has put into its
\* samples exceeds 15 s plus one step.
C14_Terminates == []C14_Bound /\ [][C14_Progress]_vars

\* A run that rose has come to its end and returned, within the step and
\* time bounds.
C14_Witness ==
    /\ pc = "simDone"
    /\ ~LoopCond
    /\ maxH > 0
    /\ steps > 0
    /\ steps <= MaxSteps
    /\ NoLater(t)

\* One evaluation of rocketODEs at ys is free of degeneracy: the divisor m
\* is positive, the air volume is positive, and the powered branch (the only
\* one that returns a flow) is taken with water left and pressure over the
\* atmosphere.
SoundAt(ys, prm) ==
    /\ ys[3] > 0
    /\ V_air(ys[4]) > 0
    /\ rocketODEs(ys, prm)[4] # 0 => ys[4] > 0 /\ deltaP(ys[4], prm) > 0

\* The four evaluations of one rk4Step, each slope handed on as in rk4Step.
SoundStage4(y0, step, prm, k3) ==
    SoundAt(AdvanceAll(y0, k3, step, 1), prm)

SoundStage3(y0, step, prm, k2) ==
    /\ SoundAt(AdvanceAll(y0, k2, step, 2), prm)
    /\ SoundStage4(y0, step, prm, rocketODEs(AdvanceAll(y0, k2, step, 2), prm))

SoundStage2(y0, step, prm, k1) ==
    /\ SoundAt(AdvanceAll(y0, k1, step, 2), prm)
    /\ SoundStage3(y0, step, prm, rocketODEs(AdvanceAll(y0, k1, step, 2), prm))

SoundStep(y0, step, prm) ==
    /\ SoundAt(y0, prm)
    /\ SoundStage2(y0, step, prm, rocketODEs(y0, prm))

\* C15: in a run with 0 < fillRatio < 1 and pressure > 0, all four
\* evaluations of rocketODEs in every rk4Step the loop makes are free of
\* degeneracy.
C15_NoDegeneracy ==
    /\ pc = "sim"
    /\ LoopCond
    /\ BigLess(Zero, fillRatio)
    /\ BigLess(fillRatio, DblInt(1))
    /\ pressurePSI > 0
    => SoundStep(y, dt_ms, params)

\* mass - rho_water * waterVolume in 1e-6 kg, for a volume in 1e-9 m^3.
DryMass(y0) == y0[3] - (rho_water * y0[4]) \div 1000

\* C16: in every state of every run, from the state built at entry to the
\* state returned, mass - rho_water * waterVolume equals mass_empty; every
\* step keeps the relation, the step on which waterVolume crosses 0 too.
C16_State == InRun => DryMass(y) = mass_empty

C16_Step == IsStep => DryMass(y') = DryMass(y)

=============================================================================
